---- MODULE Spec2Model ----
(***************************************************************************)
(* Model of the Tree component of react-d3-tree (src/src/Tree/index.js):   *)
(* derivation of the internal tree from the raw data, the tree searches,   *)
(* collapse / expand, the toggle protocol with its transition lock, the    *)
(* layout pass with the one-time initialDepth policy, the pan/zoom         *)
(* geometry and the onUpdate notification.                                 *)
(*                                                                         *)
(* A raw tree (the `data` prop) is held flat, its nodes numbered in        *)
(* pre-order: parent[i] is the number of the parent of node i (0 for a     *)
(* root) and flag[i] the raw node's `_collapsed` field.  A derived node is *)
(* a record with the fields the component reads and writes: id,            *)
(* _collapsed, _children, children and depth.  Node objects are named by   *)
(* their number, so a sequence of numbers is an array of node objects.     *)
(* clone() copies a structure into fresh objects; on values it changes     *)
(* nothing, what it removes is aliasing, and that is modelled by which     *)
(* variable each handler writes.  The x / y positions computed by d3's     *)
(* tree layout are not part of the state.                                  *)
(***************************************************************************)
EXTENDS Integers, Sequences, FiniteSets, TLC

\* ------------------------------------------------------------------ bounds

\* Largest number of nodes of the enumerated raw trees.
MaxNodes == 3
\* Number of distinct data references the parent passes over one run.
MaxDataRefs == 2

\* ------------------------------------------------------- values of the model

\* node.depth before any layout has visited the node; props.initialDepth
\* when it is not given (both `undefined` in the source).
NoDepth == 0 - 1
\* internalState.targetNode = null
NoNode == 0

\* Raw `_collapsed` fields: absent, or an explicit boolean.
RawFlags == {"undefined", "true", "false"}

Range(s) == {s[i] : i \in DOMAIN s}

\* ---------------------------------------------------------------- raw trees

\* The proper ancestors of node i under the parent vector p.
RECURSIVE Ancestors(_, _)
Ancestors(p, i) == IF p[i] = 0 THEN {} ELSE {p[i]} \cup Ancestors(p, p[i])

\* Parent vectors that number a forest of n nodes in pre-order: the parent
\* of node i is the previous node or one of its ancestors, or i is a root.
Shapes(n) ==
  {p \in [1..n -> 0..(n - 1)] :
     /\ p[1] = 0
     /\ \A i \in 2..n : p[i] \in ({0, i - 1} \cup Ancestors(p, i - 1))}

\* The children array of raw node i (of the top level array for i = 0).
RawChildren(parent, i) ==
  LET F[k \in 0..Len(parent)] ==
        IF k = 0 THEN <<>>
        ELSE IF parent[k] = i THEN Append(F[k - 1], k) ELSE F[k - 1]
  IN F[Len(parent)]

\* The scenario tree of the specification: A with children B and C, C with
\* child D, no explicit collapse flags.
ScenarioTree ==
  [parent |-> <<0, 1, 1, 3>>,
   flag   |-> <<"undefined", "undefined", "undefined", "undefined">>]

\* A root with two branches of depth two, the second branch and the leaf of
\* the first one collapsed by the data:  R( P( T* ), Q*( U ) ).
CousinTree ==
  [parent |-> <<0, 1, 2, 1, 4>>,
   flag   |-> <<"undefined", "undefined", "true", "true", "undefined">>]

EnumeratedTrees ==
  UNION {{[parent |-> p, flag |-> f] : p \in Shapes(n), f \in [1..n -> RawFlags]}
           : n \in 1..MaxNodes}

RawTrees == EnumeratedTrees \cup {ScenarioTree, CousinTree}

\* ------------------------------------------------- assignInternalProperties

\* A raw node as clone(props.data) holds it, before the properties are set.
RawNode(raw, i) ==
  [id         |-> 0,
   _collapsed |-> (raw.flag[i] = "true"),
   children   |-> RawChildren(raw.parent, i),
   _children  |-> <<>>,
   depth      |-> NoDepth]

\* The map over the array d: each node gets the next uuid, a defined
\* _collapsed, and, when it has children, the assigned children both as
\* children and as _children.  acc carries the nodes and the uuid stream.
RECURSIVE AssignArray(_, _, _)
AssignArray(raw, d, acc) ==
  IF d = <<>> THEN acc
  ELSE
    LET i    == Head(d)
        a1   == [nodes |-> [acc.nodes EXCEPT
                              ![i].id = acc.uuid,
                              ![i]._collapsed =
                                 IF raw.flag[i] = "undefined" THEN FALSE
                                 ELSE raw.flag[i] = "true"],
                 uuid  |-> acc.uuid + 1]
        kids == a1.nodes[i].children
        a2   == IF Len(kids) > 0
                THEN LET r == AssignArray(raw, kids, a1)
                     IN [r EXCEPT !.nodes[i]._children = kids]
                ELSE a1
    IN AssignArray(raw, Tail(d), a2)

\* Faulty variant (C5): one uuid is drawn per call and given to every node.
assignOneId(raw, uuid) ==
  LET n   == Len(raw.parent)
      top == RawChildren(raw.parent, 0)
      r   == AssignArray(raw, top,
                         [nodes |-> [i \in 1..n |-> RawNode(raw, i)],
                          uuid  |-> uuid])
  IN [data |-> [roots |-> top,
                nodes |-> [i \in 1..n |-> [r.nodes[i] EXCEPT !.id = uuid]]],
      uuid |-> uuid + 1]

\* assignInternalProperties(clone(data)) with the uuid stream at `uuid`:
\* the derived data (its top level array and its node objects) and the
\* stream after the call.
assignInternalProperties(raw, uuid) ==
  LET n   == Len(raw.parent)
      top == RawChildren(raw.parent, 0)
      r   == AssignArray(raw, top,
                         [nodes |-> [i \in 1..n |-> RawNode(raw, i)],
                          uuid  |-> uuid])
  IN [data |-> [roots |-> top, nodes |-> r.nodes], uuid |-> r.uuid]

\* ------------------------------------------------------------- tree searches

\* findNodesById(nodeId, nodeSet, hits) over the node objects `nodes`.
RECURSIVE findNodesById(_, _, _, _)
RECURSIVE FindByIdEach(_, _, _, _)
findNodesById(nodes, nodeId, nodeSet, hits) ==
  IF Len(hits) > 0 THEN hits
  ELSE FindByIdEach(nodes, nodeId, nodeSet,
                    hits \o SelectSeq(nodeSet, LAMBDA n : nodes[n].id = nodeId))

\* Faulty variant (C20): the walk does not descend into collapsed nodes.
RECURSIVE FindByIdEachExpanded(_, _, _, _)
FindByIdEachExpanded(nodes, nodeId, rest, hits) ==
  IF rest = <<>> THEN hits
  ELSE LET n == Head(rest)
           h == IF Len(nodes[n]._children) > 0 /\ ~nodes[n]._collapsed
                THEN findNodesById(nodes, nodeId, nodes[n]._children, hits)
                ELSE hits
       IN FindByIdEachExpanded(nodes, nodeId, Tail(rest), h)

\* The forEach of findNodesById: descends into every node with _children.
FindByIdEach(nodes, nodeId, rest, hits) ==
  IF rest = <<>> THEN hits
  ELSE LET n == Head(rest)
           h == IF Len(nodes[n]._children) > 0
                THEN findNodesById(nodes, nodeId, nodes[n]._children, hits)
                ELSE hits
       IN FindByIdEach(nodes, nodeId, Tail(rest), h)

\* findNodesAtDepth(depth, nodeSet, accumulator) over the node objects.
RECURSIVE findNodesAtDepth(_, _, _, _)
RECURSIVE FindAtDepthEach(_, _, _, _)
findNodesAtDepth(nodes, depth, nodeSet, accumulator) ==
  FindAtDepthEach(nodes, depth, nodeSet,
                  accumulator \o SelectSeq(nodeSet, LAMBDA n : nodes[n].depth = depth))

\* The forEach of findNodesAtDepth.
FindAtDepthEach(nodes, depth, rest, acc) ==
  IF rest = <<>> THEN acc
  ELSE LET n == Head(rest)
           a == IF Len(nodes[n]._children) > 0
                THEN findNodesAtDepth(nodes, depth, nodes[n]._children, acc)
                ELSE acc
       IN FindAtDepthEach(nodes, depth, Tail(rest), a)

\* --------------------------------------------------------- collapse / expand

\* Faulty variant (C14): only the node itself is collapsed.
collapseNodeShallow(nodes, n) == [nodes EXCEPT ![n]._collapsed = TRUE]

\* collapseNode(node): the node objects after the call.
RECURSIVE collapseNode(_, _)
RECURSIVE CollapseEach(_, _)
collapseNode(nodes, n) ==
  LET m == [nodes EXCEPT ![n]._collapsed = TRUE]
  IN IF Len(m[n]._children) > 0 THEN CollapseEach(m, m[n]._children) ELSE m

\* Faulty variant (C17): the loop over the children stops after the first.
CollapseFirstOnly(nodes, list) ==
  IF list = <<>> THEN nodes ELSE collapseNode(nodes, Head(list))

\* forEach(collapseNode) over an array of nodes.
CollapseEach(nodes, list) ==
  IF list = <<>> THEN nodes
  ELSE CollapseEach(collapseNode(nodes, Head(list)), Tail(list))

\* Faulty variant (C15): the children are expanded with the node.
expandNodeWithChildren(nodes, n) ==
  [m \in DOMAIN nodes |->
     IF m = n \/ m \in Range(nodes[n]._children)
     THEN [nodes[m] EXCEPT !._collapsed = FALSE]
     ELSE nodes[m]]

\* Faulty variant (C16): expanding hands the kept children over to the layout
\* and empties _children.
expandNodeMovingChildren(nodes, n) ==
  [nodes EXCEPT ![n]._collapsed = FALSE, ![n].children = nodes[n]._children,
                ![n]._children = <<>>]

\* expandNode(node).
expandNode(nodes, n) == [nodes EXCEPT ![n]._collapsed = FALSE]

\* collapseNeighborNodes(targetNode, nodeSet).
collapseNeighborNodes(nodes, targetNode, nodeSet) ==
  LET neighbors == SelectSeq(findNodesAtDepth(nodes, nodes[targetNode].depth, nodeSet, <<>>),
                             LAMBDA n : nodes[n].id # nodes[targetNode].id)
  IN CollapseEach(nodes, neighbors)

\* -------------------------------------------------------------------- layout

\* Faulty variant (C18): the accessor hands out the children of collapsed nodes
\* too.
LayoutAllChildren(nodes, n) == nodes[n]._children

\* The children accessor given to d3's tree layout:
\* d => (d._collapsed ? null : d._children).
LayoutChildren(nodes, n) == IF nodes[n]._collapsed THEN <<>> ELSE nodes[n]._children

\* The children of `childs` pushed on the stack last to first, each given
\* the depth of its parent plus one (the inner loop of d3's hierarchy).
RECURSIVE PushChildren(_, _, _, _)
PushChildren(nodes, stack, childs, depth) ==
  IF childs = <<>> THEN [nodes |-> nodes, stack |-> stack]
  ELSE LET c == childs[Len(childs)]
       IN PushChildren([nodes EXCEPT ![c].depth = depth],
                       Append(stack, c), SubSeq(childs, 1, Len(childs) - 1), depth)

\* tree.nodes(rootNode) of d3 (v3) as generateTree configures it: the walk
\* from the root over the children accessor.  It writes depth on every node
\* it visits and sets (or deletes) the node's children; nodes below a
\* collapsed node are not visited.  Returns the node objects after the walk
\* and the visited nodes in order.
RECURSIVE HierarchyLoop(_, _, _)
HierarchyLoop(nodes, stack, list) ==
  IF stack = <<>> THEN [nodes |-> nodes, list |-> list]
  ELSE
    LET node   == stack[Len(stack)]
        rest   == SubSeq(stack, 1, Len(stack) - 1)
        childs == LayoutChildren(nodes, node)
        pushed == PushChildren(nodes, rest, childs, nodes[node].depth + 1)
    IN IF Len(childs) > 0
       THEN HierarchyLoop([pushed.nodes EXCEPT ![node].children = childs],
                          pushed.stack, Append(list, node))
       ELSE HierarchyLoop([nodes EXCEPT ![node].children = <<>>],
                          rest, Append(list, node))

TreeNodes(nodes, rootNode) ==
  HierarchyLoop([nodes EXCEPT ![rootNode].depth = 0], <<rootNode>>, <<>>)

\* tree.links(nodes) of d3: one link from each listed node to each of its
\* (laid out) children.
RECURSIVE TreeLinks(_, _)
TreeLinks(nodes, list) ==
  IF list = <<>> THEN <<>>
  ELSE LET parent == Head(list)
       IN [k \in 1..Len(nodes[parent].children) |->
             [source |-> parent, target |-> nodes[parent].children[k]]]
          \o TreeLinks(nodes, Tail(list))

\* Faulty variant (C7): the comparison with initialDepth is strict.
RECURSIVE setInitialTreeDepthStrict(_, _, _)
setInitialTreeDepthStrict(nodes, nodeSet, initialDepth) ==
  IF nodeSet = <<>> THEN nodes
  ELSE LET n == Head(nodeSet)
       IN setInitialTreeDepthStrict(
            [nodes EXCEPT ![n]._collapsed = (nodes[n].depth > initialDepth)],
            Tail(nodeSet), initialDepth)

\* setInitialTreeDepth(nodeSet, initialDepth).
RECURSIVE setInitialTreeDepth(_, _, _)
setInitialTreeDepth(nodes, nodeSet, initialDepth) ==
  IF nodeSet = <<>> THEN nodes
  ELSE LET n == Head(nodeSet)
       IN setInitialTreeDepth(
            [nodes EXCEPT ![n]._collapsed = (nodes[n].depth >= initialDepth)],
            Tail(nodeSet), initialDepth)

\* Faulty variant (C8): the initialDepth limit is applied by every layout, not only
\* while initialRender is set.
generateTreeEveryRender(data, p, initialRender) ==
  LET rootNode == data.roots[1]
      first    == TreeNodes(data.nodes, rootNode)
      limited  == /\ p.useCollapseData = FALSE
                  /\ p.initialDepth # NoDepth
      final    == IF limited
                  THEN TreeNodes(setInitialTreeDepth(first.nodes, first.list,
                                                     p.initialDepth),
                                 rootNode)
                  ELSE first
  IN [data  |-> [data EXCEPT !.nodes = final.nodes],
      nodes |-> final.list,
      links |-> TreeLinks(final.nodes, final.list)]

\* generateTree(): lays out this.state.data[0], in place.  Returns the data
\* as the layout leaves it, and the nodes and links it returns.
generateTree(data, p, initialRender) ==
  LET rootNode == data.roots[1]
      first    == TreeNodes(data.nodes, rootNode)
      limited  == /\ p.useCollapseData = FALSE
                  /\ p.initialDepth # NoDepth
                  /\ initialRender
      final    == IF limited
                  THEN TreeNodes(setInitialTreeDepth(first.nodes, first.list,
                                                     p.initialDepth),
                                 rootNode)
                  ELSE first
  IN [data  |-> [data EXCEPT !.nodes = final.nodes],
      nodes |-> final.list,
      links |-> TreeLinks(final.nodes, final.list)]

\* ------------------------------------------------------------------ geometry

\* Faulty variant (C11): only the upper end of scaleExtent limits the zoom.
calculateD3GeometryUpperOnly(nextProps) ==
  [translate |-> nextProps.translate,
   scale     |-> IF nextProps.zoom > nextProps.scaleExtent.max
                 THEN nextProps.scaleExtent.max
                 ELSE nextProps.zoom]

\* calculateD3Geometry(nextProps).  Scales are in tenths.
calculateD3Geometry(nextProps) ==
  [translate |-> nextProps.translate,
   scale     |-> IF nextProps.zoom > nextProps.scaleExtent.max
                 THEN nextProps.scaleExtent.max
                 ELSE IF nextProps.zoom < nextProps.scaleExtent.min
                      THEN nextProps.scaleExtent.min
                      ELSE nextProps.zoom]

\* Faulty variant (C4): the incoming data is compared with the derived data, a clone
\* it never equals, so every update derives the tree again.
getDerivedStateAlways(nextProps, prevState, uuid) ==
  LET derived == assignInternalProperties(nextProps.data.raw, uuid)
      d3      == calculateD3Geometry(nextProps)
  IN [state |-> [prevState EXCEPT
                   !.dataRef = nextProps.data.ref,
                   !.data    = derived.data,
                   !.d3      = IF d3 # @ THEN d3 ELSE @],
      uuid  |-> derived.uuid]

\* getDerivedStateFromProps(nextProps, prevState): the state with the
\* derived state merged in, and the uuid stream after the call.
getDerivedStateFromProps(nextProps, prevState, uuid) ==
  LET changed == nextProps.data.ref # prevState.dataRef
      derived == IF changed
                 THEN assignInternalProperties(nextProps.data.raw, uuid)
                 ELSE [data |-> prevState.data, uuid |-> uuid]
      d3      == calculateD3Geometry(nextProps)
  IN [state |-> [prevState EXCEPT
                   !.dataRef = IF changed THEN nextProps.data.ref ELSE @,
                   !.data    = derived.data,
                   !.d3      = IF d3 # @ THEN d3 ELSE @],
      uuid  |-> derived.uuid]

\* --------------------------------------------------------------------- state

VARIABLES
  props,          \* this.props, the configuration the parent passed last
  prevProps,      \* the props of the previous render, as React hands them
                  \* to componentDidUpdate
  state,          \* this.state: dataRef, data, d3, isTransitioning
  internalState,  \* this.internalState: initialRender, targetNode,
                  \* isTransitioning
  uuid,           \* the stream of uuid.v4(): the next identifier it returns
  timers,         \* pending setTimeout callbacks that release the lock
  zoomListener,   \* the zoom behaviour bound to the svg by bindZoomListener
  rendered,       \* the nodes and links the last render() got from generateTree
  onUpdateCalls,  \* the props.onUpdate calls made by the last handler
  event,          \* the last external event and what the handler did with it
  lastToggle,     \* history: the id of the node that the toggle committed
                  \* last has collapsed while it was laid out, 0 when that
                  \* toggle did something else or there was none
  pc              \* the lifecycle phase React runs next

vars == <<props, prevProps, state, internalState, uuid, timers, zoomListener,
          rendered, onUpdateCalls, event, lastToggle, pc>>

\* What an event record holds: the kind of event, the node id it carries
\* (0 when none) and the handler's outcome.
Event(type, id, outcome) == [type |-> type, id |-> id, outcome |-> outcome]

\* The ids of the nodes of the current derived data.
CurrentIds == {state.data.nodes[n].id : n \in DOMAIN state.data.nodes}

\* ------------------------------------------------------------ the lifecycle

\* bindZoomListener(props): with zoomable, a new zoom behaviour replaces the
\* bound one; its handler closes over the onUpdate it was bound with.
bindZoomListener(p, bound) ==
  IF p.zoomable
  THEN [bound |-> TRUE, onUpdate |-> p.onUpdate, scaleExtent |-> p.scaleExtent]
  ELSE bound

\* The constructor: the state and internalState field initialisers.
Constructed(p) ==
  LET assigned == assignInternalProperties(p.data.raw, 1)
  IN /\ props = p
     /\ prevProps = p
     /\ state = [dataRef         |-> p.data.ref,
                 data            |-> assigned.data,
                 d3              |-> calculateD3Geometry(p),
                 isTransitioning |-> FALSE]
     /\ internalState = [initialRender   |-> TRUE,
                         targetNode      |-> NoNode,
                         isTransitioning |-> FALSE]
     /\ uuid = assigned.uuid
     /\ timers = 0
     /\ zoomListener = [bound |-> FALSE, onUpdate |-> FALSE,
                        scaleExtent |-> p.scaleExtent]
     /\ rendered = [nodes |-> <<>>, links |-> <<>>]
     /\ onUpdateCalls = <<>>
     /\ event = Event("mount", 0, "constructed")
     /\ lastToggle = 0
     /\ pc = "render"

\* render(): generateTree lays out state.data in place.
Render ==
  /\ pc = "render"
  /\ LET tree == generateTree(state.data, props, internalState.initialRender)
     IN /\ state' = [state EXCEPT !.data = tree.data]
        /\ rendered' = [nodes |-> tree.nodes, links |-> tree.links]
  /\ pc' = IF internalState.initialRender THEN "didMount" ELSE "didUpdate"
  /\ UNCHANGED <<lastToggle, props, prevProps, internalState, uuid, timers, zoomListener,
                 onUpdateCalls, event>>

componentDidMount ==
  /\ pc = "didMount"
  /\ zoomListener' = bindZoomListener(props, zoomListener)
  /\ internalState' = [internalState EXCEPT !.initialRender = FALSE]
  /\ pc' = "idle"
  /\ UNCHANGED <<lastToggle, props, prevProps, state, uuid, timers, rendered,
                 onUpdateCalls, event>>

\* The payload of the onUpdate call of componentDidUpdate.
UpdatePayload ==
  [node      |-> IF internalState.targetNode # NoNode
                 THEN <<state.data.nodes[internalState.targetNode]>>
                 ELSE <<>>,
   zoom      |-> state.d3.scale,
   translate |-> state.d3.translate]

\* Faulty variant (C10): the last-toggled slot is not reset after the notification.
KeepTargetNode(is) == is

\* this.internalState.targetNode = null, after the node was flushed to onUpdate.
ResetTargetNode(is) == [is EXCEPT !.targetNode = NoNode]

componentDidUpdate ==
  /\ pc = "didUpdate"
  /\ zoomListener' =
       IF \/ props.translate # prevProps.translate
          \/ props.scaleExtent # prevProps.scaleExtent
          \/ props.zoom # prevProps.zoom
          \/ props.transitionDuration # prevProps.transitionDuration
       THEN bindZoomListener(props, zoomListener)
       ELSE zoomListener
  /\ onUpdateCalls' = IF props.onUpdate THEN <<UpdatePayload>> ELSE <<>>
  /\ internalState' = ResetTargetNode(internalState)
  /\ prevProps' = props
  /\ pc' = "idle"
  /\ lastToggle' =
       IF internalState.targetNode # NoNode
       THEN LET t == internalState.targetNode
            IN IF state.data.nodes[t]._collapsed /\ t \in Range(rendered.nodes)
               THEN state.data.nodes[t].id
               ELSE 0
       ELSE lastToggle
  /\ UNCHANGED <<props, state, uuid, timers, rendered, event>>

\* ---------------------------------------------------------------- the events

\* The parent renders the component with the props np.
ReceiveProps(np) ==
  /\ pc = "idle"
  /\ LET derived == getDerivedStateFromProps(np, state, uuid)
     IN /\ state' = derived.state
        /\ uuid' = derived.uuid
  /\ props' = np
  /\ prevProps' = props
  /\ onUpdateCalls' = <<>>
  /\ event' = Event("props", 0, "render")
  /\ pc' = "render"
  /\ UNCHANGED <<lastToggle, internalState, timers, zoomListener, rendered>>

\* The data the toggle commits: the clone with the target expanded (and its
\* neighbors collapsed) or collapsed.
ToggledNodes(nodes, roots, targetNode, p) ==
  IF nodes[targetNode]._collapsed
  THEN LET expanded == expandNode(nodes, targetNode)
       IN IF p.shouldCollapseNeighborNodes
          THEN collapseNeighborNodes(expanded, targetNode, roots)
          ELSE expanded
  ELSE collapseNode(nodes, targetNode)

\* Faulty variant (C1): the toggling branch does not look at the lock.
ToggleAcceptedUnlocked(p, st) == p.collapsible

\* Faulty variant (C2): the lock is read from internalState, where it is declared and
\* never set, instead of state.
ToggleAcceptedInternalLock(p, st) == p.collapsible /\ ~internalState.isTransitioning

\* Whether handleNodeToggle takes the toggling branch.
ToggleAccepted(p, st) == p.collapsible /\ ~st.isTransitioning

\* handleNodeToggle(nodeId, evt), called from a React event handler: the
\* setState it makes is applied when the handler has returned.
handleNodeToggle(nodeId) ==
  /\ pc = "idle"
  /\ onUpdateCalls' = <<>>
  /\ LET data    == state.data
         matches == findNodesById(data.nodes, nodeId, data.roots, <<>>)
     IN IF ToggleAccepted(props, state)
        THEN IF matches = <<>>
             THEN \* targetNode is undefined: reading targetNode._collapsed throws
                  /\ event' = Event("toggle", nodeId, "TypeError")
                  /\ UNCHANGED <<lastToggle, props, prevProps, state, internalState, uuid,
                                 timers, zoomListener, rendered, pc>>
             ELSE LET targetNode == matches[1]
                      committed  == [state EXCEPT
                                       !.data.nodes = ToggledNodes(data.nodes, data.roots,
                                                                   targetNode, props),
                                       !.isTransitioning = TRUE]
                      derived    == getDerivedStateFromProps(props, committed, uuid)
                  IN /\ state' = derived.state
                     /\ uuid' = derived.uuid
                     /\ timers' = timers + 1
                     /\ internalState' = [internalState EXCEPT !.targetNode = targetNode]
                     /\ event' = Event("toggle", nodeId, "accepted")
                     /\ pc' = "render"
                     /\ UNCHANGED <<lastToggle, props, prevProps, zoomListener, rendered>>
        ELSE \* only the onClick callback runs
             /\ event' = Event("toggle", nodeId, "dropped")
             /\ UNCHANGED <<lastToggle, props, prevProps, state, internalState, uuid, timers,
                            zoomListener, rendered, pc>>

\* Faulty variant (C3): the timer clears the isTransitioning of internalState, not
\* the one of state that handleNodeToggle reads.
ReleaseInternalLock ==
  /\ pc = "idle"
  /\ timers > 0
  /\ timers' = timers - 1
  /\ internalState' = [internalState EXCEPT !.isTransitioning = FALSE]
  /\ onUpdateCalls' = <<>>
  /\ event' = Event("timer", 0, "render")
  /\ UNCHANGED <<lastToggle, props, prevProps, state, uuid, zoomListener, rendered, pc>>

\* The setTimeout callback of handleNodeToggle: setState({isTransitioning: false}).
ReleaseLock ==
  /\ pc = "idle"
  /\ timers > 0
  /\ timers' = timers - 1
  /\ LET derived == getDerivedStateFromProps(props,
                      [state EXCEPT !.isTransitioning = FALSE], uuid)
     IN /\ state' = derived.state
        /\ uuid' = derived.uuid
  /\ onUpdateCalls' = <<>>
  /\ event' = Event("timer", 0, "render")
  /\ pc' = "render"
  /\ UNCHANGED <<lastToggle, props, prevProps, internalState, zoomListener, rendered>>

\* The 'zoom' handler bound by bindZoomListener, for a pan / zoom event that
\* reports `scale` and `translate`; d3 keeps the scale within the extent the
\* behaviour was bound with.
\* The event record keeps what the event reported.
ZoomEvent(scale, translate) ==
  /\ pc = "idle"
  /\ zoomListener.bound
  /\ zoomListener.scaleExtent.min <= scale
  /\ scale <= zoomListener.scaleExtent.max
  /\ IF zoomListener.onUpdate
     THEN /\ onUpdateCalls' = <<[node |-> <<>>, zoom |-> scale, translate |-> translate]>>
          /\ state' = [state EXCEPT !.d3 = [translate |-> translate, scale |-> scale]]
     ELSE /\ onUpdateCalls' = <<>>
          /\ UNCHANGED state
  /\ event' = [type |-> "zoom", id |-> 0, outcome |-> "handled",
               scale |-> scale, translate |-> translate]
  /\ UNCHANGED <<lastToggle, props, prevProps, internalState, uuid, timers, zoomListener,
                 rendered, pc>>

\* handleOnMouseOverCb / handleOnMouseOutCb: look the node up in a clone and
\* hand a copy to the callback; nothing of the component changes.
handleOnMouseOverCb(nodeId) ==
  /\ pc = "idle"
  /\ onUpdateCalls' = <<>>
  /\ event' = Event("hover", 0,
                    IF findNodesById(state.data.nodes, nodeId, state.data.roots, <<>>) = <<>>
                    THEN "undefined" ELSE "found")
  /\ UNCHANGED <<lastToggle, props, prevProps, state, internalState, uuid, timers,
                 zoomListener, rendered, pc>>

\* ------------------------------------------------------------ specifications

\* A domain D gives, for each prop, the values the parent passes (trees: the
\* first data object, newTrees: the data objects passed later), and the
\* scales and translates the pan / zoom events report.
PropsOver(D, data) ==
  [data                        : data,
   collapsible                 : D.collapsible,
   shouldCollapseNeighborNodes : D.shouldCollapseNeighborNodes,
   useCollapseData             : D.useCollapseData,
   initialDepth                : D.initialDepth,
   onUpdate                    : D.onUpdate,
   zoomable                    : D.zoomable,
   zoom                        : D.zoom,
   translate                   : D.translate,
   scaleExtent                 : D.scaleExtent,
   transitionDuration          : D.transitionDuration]

\* The props of a new render: the same props, one prop changed, or a new
\* data object (a fresh reference, whatever its content).
NextProps(D) ==
  {props}
  \cup {[props EXCEPT !.collapsible = v] : v \in D.collapsible}
  \cup {[props EXCEPT !.shouldCollapseNeighborNodes = v] : v \in D.shouldCollapseNeighborNodes}
  \cup {[props EXCEPT !.useCollapseData = v] : v \in D.useCollapseData}
  \cup {[props EXCEPT !.initialDepth = v] : v \in D.initialDepth}
  \cup {[props EXCEPT !.onUpdate = v] : v \in D.onUpdate}
  \cup {[props EXCEPT !.zoomable = v] : v \in D.zoomable}
  \cup {[props EXCEPT !.zoom = v] : v \in D.zoom}
  \cup {[props EXCEPT !.translate = v] : v \in D.translate}
  \cup {[props EXCEPT !.scaleExtent = v] : v \in D.scaleExtent}
  \cup {[props EXCEPT !.transitionDuration = v] : v \in D.transitionDuration}
  \cup {[props EXCEPT !.data = [ref |-> props.data.ref + 1, raw |-> t]] :
          t \in IF props.data.ref < MaxDataRefs THEN D.newTrees ELSE {}}

InitOver(D) ==
  \E p \in PropsOver(D, [ref : {1}, raw : D.trees]) : Constructed(p)

\* The node ids an event may carry: those of the current nodes, and 0, an
\* id no node has.
EventIds == CurrentIds \cup {0}

NextOver(D) ==
  \/ Render
  \/ componentDidMount
  \/ componentDidUpdate
  \/ \E np \in NextProps(D) : ReceiveProps(np)
  \/ \E id \in EventIds : handleNodeToggle(id)
  \/ ReleaseLock
  \/ \E s \in D.eventScale, t \in D.eventTranslate : ZoomEvent(s, t)
  \/ \E id \in EventIds : handleOnMouseOverCb(id)

\* Trees without explicit collapse flags.
PlainTrees == {t \in RawTrees : \A i \in DOMAIN t.flag : t.flag[i] = "undefined"}

Origin == [x |-> 0, y |-> 0]

\* The defaults of Tree.defaultProps (scales in tenths).
Defaults ==
  [trees                       |-> {ScenarioTree},
   newTrees                    |-> {},
   collapsible                 |-> {TRUE},
   shouldCollapseNeighborNodes |-> {FALSE},
   useCollapseData             |-> {FALSE},
   initialDepth                |-> {NoDepth},
   onUpdate                    |-> {FALSE},
   zoomable                    |-> {TRUE},
   zoom                        |-> {10},
   translate                   |-> {Origin},
   scaleExtent                 |-> {[min |-> 1, max |-> 10]},
   transitionDuration          |-> {500},
   eventScale                  |-> {5},
   eventTranslate              |-> {Origin}]

\* The toggle protocol: any plain tree, toggling enabled or not, with and
\* without an onUpdate callback.
ToggleDomain ==
  [Defaults EXCEPT !.trees = PlainTrees,
                   !.collapsible = BOOLEAN,
                   !.onUpdate = BOOLEAN]

Init == InitOver(ToggleDomain)
Next == NextOver(ToggleDomain)
Spec == Init /\ [][Next]_vars

\* The forests of at most two nodes, with any explicit collapse flags.
TwoNodeTrees == {t \in RawTrees : Len(t.parent) <= 2}

\* Data changes: the data object is replaced by another one, each a forest
\* of at most two nodes with any explicit collapse flags.
DataDomain ==
  [Defaults EXCEPT !.trees = TwoNodeTrees,
                   !.newTrees = TwoNodeTrees]

DataSpec == InitOver(DataDomain) /\ [][NextOver(DataDomain)]_vars

SmallTrees == TwoNodeTrees \cap PlainTrees

\* The first layout: any tree whose nodes carry no flag or an explicit
\* `_collapsed: true`, mounted with useCollapseData false and an initialDepth.
MountDomain ==
  [Defaults EXCEPT !.trees = {t \in RawTrees : \A i \in DOMAIN t.flag : t.flag[i] # "false"},
                   !.initialDepth = {0, 1, 2}]

MountSpec == InitOver(MountDomain) /\ [][NextOver(Defaults)]_vars

LiveDomain ==
  [Defaults EXCEPT !.trees = SmallTrees,
                   !.newTrees = SmallTrees,
                   !.collapsible = BOOLEAN,
                   !.onUpdate = BOOLEAN]

\* The timer callbacks of the event loop run once they are due, however
\* many other events are handled in between, and React runs the lifecycle
\* of an update to its end.
LiveFairness ==
  /\ SF_vars(ReleaseLock)
  /\ WF_vars(Render)
  /\ WF_vars(componentDidMount)
  /\ WF_vars(componentDidUpdate)

LiveSpec == InitOver(LiveDomain) /\ [][NextOver(LiveDomain)]_vars /\ LiveFairness

\* Updates after mount: any plain tree, mounted with or without an
\* initialDepth and with either useCollapseData, both of which later
\* renders may change; the data objects passed later are plain forests of
\* at most two nodes.
UpdateDomain ==
  [Defaults EXCEPT !.trees = PlainTrees,
                   !.newTrees = SmallTrees,
                   !.useCollapseData = BOOLEAN,
                   !.initialDepth = {NoDepth, 1}]

UpdateSpec == InitOver(UpdateDomain) /\ [][NextOver(UpdateDomain)]_vars

\* Neighbor collapsing: the cousin tree and any enumerated tree whose nodes
\* carry no flag or `_collapsed: true`, with shouldCollapseNeighborNodes on
\* or off.
NeighborDomain ==
  [Defaults EXCEPT !.trees = {t \in RawTrees : \A i \in DOMAIN t.flag : t.flag[i] # "false"},
                   !.shouldCollapseNeighborNodes = BOOLEAN]

NeighborSpec == InitOver(NeighborDomain) /\ [][NextOver(NeighborDomain)]_vars

\* The tree of one node without a flag.
OneNodeTrees == {t \in SmallTrees : Len(t.parent) = 1}

Moved == [x |-> 3, y |-> 4]

\* Geometry: a one-node tree configured with a zoom below, inside or above
\* the scale extent (scales in tenths: 50 is zoom 5, [1, 20] is the extent
\* {min: 0.1, max: 2}), one extent with min > max, two translates, with and
\* without an onUpdate callback, and pan / zoom events that report a scale
\* and a translate of their own.
GeometryDomain ==
  [Defaults EXCEPT !.trees = OneNodeTrees,
                   !.onUpdate = BOOLEAN,
                   !.zoom = {10, 50},
                   !.translate = {Origin, Moved},
                   !.scaleExtent = {[min |-> 1, max |-> 10], [min |-> 1, max |-> 20],
                                    [min |-> 20, max |-> 30], [min |-> 20, max |-> 1]},
                   !.eventScale = {5, 25},
                   !.eventTranslate = {Origin, [x |-> 7, y |-> 7]}]

GeometrySpec == InitOver(GeometryDomain) /\ [][NextOver(GeometryDomain)]_vars

\* Collapse state: the plain trees and the cousin tree, mounted with or
\* without an initialDepth, toggled with or without neighbor collapsing.
StructureDomain ==
  [Defaults EXCEPT !.trees = PlainTrees \cup {CousinTree},
                   !.shouldCollapseNeighborNodes = BOOLEAN,
                   !.initialDepth = {NoDepth, 1}]

StructureSpec == InitOver(StructureDomain) /\ [][NextOver(StructureDomain)]_vars

\* ------------------------------------------------------------------- claims

\* The collapsed flag of every node of the data.
CollapsedFlags(data) == [n \in DOMAIN data.nodes |-> data.nodes[n]._collapsed]

\* The node of the data with the given id (NoNode when there is none).
NodeWithId(data, id) ==
  IF \E n \in DOMAIN data.nodes : data.nodes[n].id = id
  THEN CHOOSE n \in DOMAIN data.nodes : data.nodes[n].id = id
  ELSE NoNode

\* A step that handles a toggle request: taken from the idle phase, it
\* leaves the request in `event`.
ToggleStep == pc = "idle" /\ event'.type = "toggle"

\* C1: a toggle request made while the lock is held or while collapsible is
\* false changes no node's collapsed flag, leaves the last-toggled slot
\* unset and schedules no release timer; and in every reachable state at
\* most one release timer is pending, one exactly while the lock is held.
C1_NotAcceptedChangesNothing ==
  /\ [](timers <= 1 /\ (state.isTransitioning <=> timers = 1))
  /\ [][(ToggleStep /\ (state.isTransitioning \/ ~props.collapsible))
          => /\ CollapsedFlags(state'.data) = CollapsedFlags(state.data)
             /\ internalState'.targetNode = NoNode
             /\ timers' = timers
             /\ state'.isTransitioning = state.isTransitioning]_vars

\* C1 witness: a request for an existing node was dropped while the lock of
\* an earlier toggle was held.
C1_Witness ==
  /\ pc = "idle"
  /\ event.type = "toggle" /\ event.outcome = "dropped" /\ event.id \in CurrentIds
  /\ props.collapsible
  /\ state.isTransitioning
  /\ timers = 1

\* C2: with collapsible true and an onUpdate callback, of two toggle
\* requests made within one lock window the first is committed once (one
\* render, one onUpdate call) and the second is dropped: it starts no
\* commit, changes no state and calls onUpdate not at all.
C2_SecondToggleDropped ==
  /\ [][(ToggleStep /\ props.collapsible /\ ~state.isTransitioning
           /\ event'.id \in CurrentIds)
          => /\ event'.outcome = "accepted"
             /\ pc' = "render"
             /\ state'.isTransitioning]_vars
  /\ [][(pc = "didUpdate" /\ event.type = "toggle" /\ props.onUpdate)
          => Len(onUpdateCalls') = 1 /\ pc' = "idle"]_vars
  /\ [][(ToggleStep /\ props.collapsible /\ state.isTransitioning)
          => /\ event'.outcome = "dropped"
             /\ pc' = "idle"
             /\ state' = state
             /\ rendered' = rendered
             /\ onUpdateCalls' = <<>>]_vars

\* C2 witness: the second request of a pair was dropped in the lock window
\* of the first, whose commit made one onUpdate call.
C2_Witness ==
  /\ pc = "idle"
  /\ event.type = "toggle" /\ event.outcome = "dropped" /\ event.id \in CurrentIds
  /\ props.collapsible /\ props.onUpdate
  /\ state.isTransitioning
  /\ onUpdateCalls = <<>>

\* C3: the lock taken by an accepted toggle is eventually released by its
\* timer, whatever other events are handled in between; and with the lock
\* free (and collapsible true) a toggle request for a node of the tree is
\* accepted.
C3_LockEventuallyReleased ==
  /\ (state.isTransitioning ~> ~state.isTransitioning)
  /\ [][(ToggleStep /\ ~state.isTransitioning /\ props.collapsible
           /\ event'.id \in CurrentIds)
          => event'.outcome = "accepted"]_vars

\* C3 witness: a toggle was accepted after the lock of an earlier one was
\* released: the data holds a node collapsed by the first toggle and one
\* expanded by the second while the second lock is held.
C3_Witness ==
  /\ pc = "idle"
  /\ event.type = "toggle" /\ event.outcome = "accepted"
  /\ state.isTransitioning
  /\ \E n \in DOMAIN state.data.nodes :
       /\ state.data.nodes[n].id = event.id
       /\ ~state.data.nodes[n]._collapsed

\* C4: a render whose data reference differs from the stored one replaces
\* the derived tree by one derived from the new raw data alone (each node's
\* collapsed flag is the raw node's explicit flag, or false; every id is
\* fresh; no node has a depth yet); a step whose data reference is the
\* stored one draws no id and derives nothing.
C4_RebuiltOnReferenceChange ==
  /\ [][(pc = "idle" /\ event'.type = "props" /\ props'.data.ref # state.dataRef)
          => LET raw == props'.data.raw
             IN /\ state'.dataRef = props'.data.ref
                /\ DOMAIN state'.data.nodes = 1..Len(raw.parent)
                /\ state'.data.roots = RawChildren(raw.parent, 0)
                /\ uuid' = uuid + Len(raw.parent)
                /\ \A n \in DOMAIN state'.data.nodes :
                     LET node == state'.data.nodes[n]
                     IN /\ node._collapsed = (raw.flag[n] = "true")
                        /\ node._children = RawChildren(raw.parent, n)
                        /\ node.depth = NoDepth
                        /\ node.id >= uuid
                        /\ node.id \notin CurrentIds]_vars
  /\ [][(props'.data.ref = state.dataRef)
          => /\ uuid' = uuid
             /\ state'.dataRef = state.dataRef
             /\ CurrentIds' = CurrentIds]_vars

\* C4 witness: a new data object arrived in the lock window of a toggle and
\* the tree derived from it holds a node collapsed by its raw flag.
C4_Witness ==
  /\ pc = "render"
  /\ event.type = "props"
  /\ state.dataRef # 1
  /\ timers = 1
  /\ \E n \in DOMAIN state.data.nodes :
       props.data.raw.flag[n] = "true" /\ state.data.nodes[n]._collapsed
  /\ \E n \in DOMAIN state.data.nodes :
       props.data.raw.flag[n] = "undefined" /\ ~state.data.nodes[n]._collapsed

\* C5: the nodes of the derived tree have pairwise distinct ids in every
\* reachable state, and a step that leaves the stored data reference alone
\* leaves every node's id alone.
C5_IdsUniqueAndStable ==
  /\ [](\A m, n \in DOMAIN state.data.nodes :
          state.data.nodes[m].id = state.data.nodes[n].id => m = n)
  /\ [][(state'.dataRef = state.dataRef)
          => /\ DOMAIN state'.data.nodes = DOMAIN state.data.nodes
             /\ \A n \in DOMAIN state.data.nodes :
                  state'.data.nodes[n].id = state.data.nodes[n].id]_vars

\* C5 witness: a two-node tree derived from a second data object, after a
\* toggle of it was committed and its lock released.
C5_Witness ==
  /\ pc = "idle"
  /\ event.type = "timer"
  /\ state.dataRef # 1
  /\ Cardinality(CurrentIds) = 2
  /\ \E n \in DOMAIN state.data.nodes :
       state.data.nodes[n]._collapsed /\ props.data.raw.flag[n] # "true"

\* The parent of node n in the full-children structure (NoNode for a root).
ParentOf(nodes, n) ==
  IF \E m \in DOMAIN nodes : n \in Range(nodes[m]._children)
  THEN CHOOSE m \in DOMAIN nodes : n \in Range(nodes[m]._children)
  ELSE NoNode

\* The length of the path from n's root to n.
RECURSIVE PathLength(_, _)
PathLength(nodes, n) ==
  IF ParentOf(nodes, n) = NoNode THEN 0 ELSE 1 + PathLength(nodes, ParentOf(nodes, n))

\* The root of the tree n is in.
RECURSIVE RootOf(_, _)
RootOf(nodes, n) ==
  IF ParentOf(nodes, n) = NoNode THEN n ELSE RootOf(nodes, ParentOf(nodes, n))

\* The nodes of the tree that is laid out, the one of the first root.
LaidOutTree(data) ==
  {n \in DOMAIN data.nodes : RootOf(data.nodes, n) = data.roots[1]}

\* The first layout has returned, with the initialDepth limit in force.
FirstLayoutLimited ==
  /\ pc = "didMount"
  /\ props.useCollapseData = FALSE
  /\ props.initialDepth # NoDepth

\* C6 (as claimed): when the first layout returns with useCollapseData false
\* and initialDepth = k, every node of the tree at depth k or more is
\* collapsed and the node list holds no node deeper than k.
C6_Original ==
  FirstLayoutLimited =>
    /\ \A n \in LaidOutTree(state.data) :
         PathLength(state.data.nodes, n) >= props.initialDepth
           => state.data.nodes[n]._collapsed
    /\ \A i \in DOMAIN rendered.nodes :
         PathLength(state.data.nodes, rendered.nodes[i]) <= props.initialDepth

\* C7 (as claimed): for the scenario tree with initialDepth 1 the first
\* layout returns A alone and no link.
C7_Original ==
  (FirstLayoutLimited /\ props.data.raw = ScenarioTree /\ props.initialDepth = 1)
    => rendered.nodes = <<1>> /\ rendered.links = <<>>

\* C7 (amended): for the scenario tree with initialDepth 1 the first layout
\* leaves A expanded and B, C and D collapsed, and returns the nodes A, B
\* and C (D is hidden under C) and the two links from A.
C7_ScenarioFirstLayout ==
  (FirstLayoutLimited /\ props.data.raw = ScenarioTree /\ props.initialDepth = 1)
    => /\ rendered.nodes = <<1, 2, 3>>
       /\ rendered.links = <<[source |-> 1, target |-> 2], [source |-> 1, target |-> 3]>>
       /\ CollapsedFlags(state.data) = <<FALSE, TRUE, TRUE, TRUE>>
       /\ [n \in 1..4 |-> state.data.nodes[n].depth] = <<0, 1, 1, 2>>

\* C7 witness: the first layout of the scenario tree with initialDepth 1.
C7_Witness ==
  /\ FirstLayoutLimited
  /\ props.data.raw = ScenarioTree
  /\ props.initialDepth = 1
  /\ Len(rendered.nodes) > 0

\* C8: once mount has completed initialRender stays false, and no layout
\* made with initialRender false changes a collapsed flag, whatever
\* initialDepth and useCollapseData are then and whether the tree was
\* derived before or after mount.
C8_LimitOnlyOnFirstLayout ==
  /\ [][~internalState.initialRender => ~internalState'.initialRender]_vars
  /\ [](pc = "idle" => ~internalState.initialRender)
  /\ [][(pc = "render" /\ ~internalState.initialRender)
          => CollapsedFlags(state'.data) = CollapsedFlags(state.data)]_vars

\* C8 witness: a layout after mount, of a tree derived from a later data
\* object, with the limit configured, has returned a node at or below the
\* limit that is not collapsed.
C8_Witness ==
  /\ pc = "didUpdate"
  /\ state.dataRef # 1
  /\ props.useCollapseData = FALSE
  /\ props.initialDepth # NoDepth
  /\ \E i \in DOMAIN rendered.nodes :
       /\ state.data.nodes[rendered.nodes[i]].depth >= props.initialDepth
       /\ ~state.data.nodes[rendered.nodes[i]]._collapsed

\* The proper ancestors of n in the full-children structure.
RECURSIVE AncestorsOf(_, _)
AncestorsOf(nodes, n) ==
  IF ParentOf(nodes, n) = NoNode THEN {}
  ELSE {ParentOf(nodes, n)} \cup AncestorsOf(nodes, ParentOf(nodes, n))

\* The descendants of n in the full-children structure.
Descendants(nodes, n) == {m \in DOMAIN nodes : n \in AncestorsOf(nodes, m)}

\* C9 (as claimed): the accepted toggle of a collapsed node that is on
\* screen leaves the target expanded and, with shouldCollapseNeighborNodes,
\* every other node of its tree at the same depth collapsed together with
\* all its descendants; without the option no other node's flag changes.
C9_Original ==
  [][(/\ ToggleStep
      /\ event'.outcome = "accepted"
      /\ NodeWithId(state.data, event'.id) \in Range(rendered.nodes)
      /\ state.data.nodes[NodeWithId(state.data, event'.id)]._collapsed)
       => LET t     == NodeWithId(state.data, event'.id)
              nodes == state'.data.nodes
          IN /\ ~nodes[t]._collapsed
             /\ IF props.shouldCollapseNeighborNodes
                THEN \A n \in DOMAIN nodes :
                       (/\ n # t
                        /\ RootOf(nodes, n) = RootOf(nodes, t)
                        /\ PathLength(nodes, n) = PathLength(nodes, t))
                         => \A m \in {n} \cup Descendants(nodes, n) : nodes[m]._collapsed
                ELSE \A n \in DOMAIN nodes :
                       n # t => nodes[n]._collapsed = state.data.nodes[n]._collapsed]_vars

\* C10: the slot is empty whenever no update is in progress; an accepted
\* toggle puts its target in the slot with the collapsed flag flipped; the
\* onUpdate call of the commit of a toggle carries a copy of that node as
\* committed, the call of any other commit and of any pan / zoom event
\* carries no node.
C10_TargetDeliveredOnce ==
  /\ [](pc = "idle" => internalState.targetNode = NoNode)
  /\ [][(ToggleStep /\ event'.outcome = "accepted")
          => LET t == NodeWithId(state.data, event'.id)
             IN /\ internalState'.targetNode = t
                /\ state'.data.nodes[t]._collapsed = ~state.data.nodes[t]._collapsed]_vars
  /\ [][(pc = "didUpdate" /\ props.onUpdate)
          => /\ Len(onUpdateCalls') = 1
             /\ onUpdateCalls'[1].node =
                  IF event.type = "toggle"
                  THEN <<state.data.nodes[NodeWithId(state.data, event.id)]>>
                  ELSE <<>>
             /\ internalState'.targetNode = NoNode]_vars
  /\ [][(pc = "idle" /\ event'.type = "zoom")
          => \A i \in DOMAIN onUpdateCalls' : onUpdateCalls'[i].node = <<>>]_vars

\* C10 witness: the commit of a toggle that collapsed its target has called
\* onUpdate with the collapsed node.
C10_Witness ==
  /\ pc = "idle"
  /\ event.type = "toggle" /\ event.outcome = "accepted"
  /\ Len(onUpdateCalls) = 1
  /\ onUpdateCalls[1].node # <<>>
  /\ onUpdateCalls[1].node[1].id = event.id
  /\ onUpdateCalls[1].node[1]._collapsed

\* ---------------------------------------------------------------------- C11

Smaller(a, b) == IF a <= b THEN a ELSE b
Larger(a, b) == IF a >= b THEN a ELSE b

\* clamp(v, lo, hi) for lo <= hi.
Clamp(v, lo, hi) == Larger(lo, Smaller(v, hi))

\* C11: whenever the geometry state has just been derived from the props (the
\* constructor, or an update before its render) and scaleExtent.min <= max,
\* its scale is clamp(zoom, min, max), so within [min, max] and zoom itself when
\* zoom is inside, and its translate is the configured translate.
C11_ScaleClamped ==
  (pc = "render" /\ props.scaleExtent.min <= props.scaleExtent.max) =>
    /\ state.d3.scale = Clamp(props.zoom, props.scaleExtent.min, props.scaleExtent.max)
    /\ props.scaleExtent.min <= state.d3.scale
    /\ state.d3.scale <= props.scaleExtent.max
    /\ (props.scaleExtent.min <= props.zoom /\ props.zoom <= props.scaleExtent.max
          => state.d3.scale = props.zoom)
    /\ state.d3.translate = props.translate

\* An update has resolved zoom 5 with the extent {0.1, 2} to 2, with the
\* translate passed through.
C11_Witness ==
  /\ pc = "render"
  /\ event.type = "props"
  /\ props.zoom = 50
  /\ props.scaleExtent = [min |-> 1, max |-> 20]
  /\ props.translate = Moved
  /\ state.d3 = [translate |-> Moved, scale |-> 20]

\* ---------------------------------------------------------------------- C12

\* A pan / zoom event is handled.
ZoomStep == pc = "idle" /\ event'.type = "zoom"

\* What the event reported, as a geometry state.
Reported(e) == [translate |-> e.translate, scale |-> e.scale]

\* C12: every pan / zoom event on a zoomable tree sets the geometry state to
\* the scale and translate the event reported, unclamped, with or without an
\* onUpdate callback and whether or not the toggle lock is held.
C12_Original ==
  [][ZoomStep => state'.d3 = Reported(event')]_vars

\* ---------------------------------------------------------------------- C13

\* C13: a toggle request whose id matches no node of the current tree raises
\* no error and leaves the tree data, the lock, the last-toggled slot and the
\* geometry unchanged, whatever collapsible and the lock are.
C13_Original ==
  [][(ToggleStep /\ event'.id \notin CurrentIds)
       => /\ event'.outcome # "TypeError"
          /\ state' = state
          /\ internalState' = internalState]_vars

\* ---------------------------------------------------------------------- C14

\* An accepted toggle of a node that was expanded: collapseNode runs on it.
CollapseStep ==
  /\ ToggleStep
  /\ event'.outcome = "accepted"
  /\ ~state.data.nodes[NodeWithId(state.data, event'.id)]._collapsed

\* C14: after collapseNode(n), n and every descendant of n through _children
\* are collapsed, and the flag of every node outside n's subtree is what it
\* was.
C14_SubtreeCollapsed ==
  [][CollapseStep
       => LET t   == NodeWithId(state.data, event'.id)
              sub == {t} \cup Descendants(state.data.nodes, t)
          IN \A n \in DOMAIN state.data.nodes :
               IF n \in sub
               THEN state'.data.nodes[n]._collapsed
               ELSE state'.data.nodes[n]._collapsed = state.data.nodes[n]._collapsed]_vars

\* A node with children has been collapsed together with its descendants
\* while a node outside its subtree is still expanded.
C14_Witness ==
  /\ event.type = "toggle"
  /\ event.outcome = "accepted"
  /\ pc = "render"
  /\ LET t == NodeWithId(state.data, event.id)
     IN /\ state.data.nodes[t]._collapsed
        /\ Descendants(state.data.nodes, t) # {}
        /\ \A n \in Descendants(state.data.nodes, t) : state.data.nodes[n]._collapsed
        /\ \E n \in DOMAIN state.data.nodes :
             /\ n \notin {t} \cup Descendants(state.data.nodes, t)
             /\ ~state.data.nodes[n]._collapsed

\* ---------------------------------------------------------------------- C15

\* An accepted toggle of a node that was collapsed, without neighbor
\* collapsing: expandNode alone runs on it.
ExpandStep ==
  /\ ToggleStep
  /\ event'.outcome = "accepted"
  /\ ~props.shouldCollapseNeighborNodes
  /\ state.data.nodes[NodeWithId(state.data, event'.id)]._collapsed

\* C15: after expandNode(n), n is expanded and the collapsed flag of every
\* other node, its descendants among them, is what it was.
C15_OnlyNodeExpanded ==
  [][ExpandStep
       => LET t == NodeWithId(state.data, event'.id)
          IN \A n \in DOMAIN state.data.nodes :
               IF n = t
               THEN ~state'.data.nodes[n]._collapsed
               ELSE state'.data.nodes[n]._collapsed = state.data.nodes[n]._collapsed]_vars

\* A node has been expanded whose descendants are all still collapsed.
C15_Witness ==
  /\ event.type = "toggle"
  /\ event.outcome = "accepted"
  /\ pc = "render"
  /\ LET t == NodeWithId(state.data, event.id)
     IN /\ ~state.data.nodes[t]._collapsed
        /\ Descendants(state.data.nodes, t) # {}
        /\ \A n \in Descendants(state.data.nodes, t) : state.data.nodes[n]._collapsed

\* ---------------------------------------------------------------------- C16

\* The ids of the nodes of a sequence, in order.
IdsOf(nodes, list) == [k \in DOMAIN list |-> nodes[list[k]].id]

\* C16: as long as the derived tree is not replaced, every step (a toggle
\* with or without neighbor collapsing, a layout pass, the initialDepth pass,
\* a lock release) leaves the _children of every node with the same length,
\* order and node ids.
C16_FullChildrenKept ==
  [][state'.dataRef = state.dataRef
       => /\ DOMAIN state'.data.nodes = DOMAIN state.data.nodes
          /\ \A n \in DOMAIN state.data.nodes :
               /\ state'.data.nodes[n]._children = state.data.nodes[n]._children
               /\ IdsOf(state'.data.nodes, state'.data.nodes[n]._children)
                    = IdsOf(state.data.nodes, state.data.nodes[n]._children)]_vars

\* A node with two children has been collapsed, expanded again and laid
\* out, its lock released, and still has both.
C16_Witness ==
  /\ pc = "idle"
  /\ event.type = "timer"
  /\ \E n \in DOMAIN state.data.nodes :
       /\ Len(state.data.nodes[n]._children) = 2
       /\ ~state.data.nodes[n]._collapsed
       /\ Len(state.data.nodes[n].children) = 2
       /\ \A k \in 1..2 : state.data.nodes[state.data.nodes[n]._children[k]]._collapsed

\* ---------------------------------------------------------------------- C17

\* The commit of a toggle that expands the node the last committed toggle
\* collapsed while it was laid out has been rendered.
ReopenedRendered ==
  /\ pc = "didUpdate"
  /\ event.type = "toggle"
  /\ lastToggle # 0
  /\ event.id = lastToggle

\* C17: when a laid out, expanded node n is collapsed by a toggle and then
\* expanded by the next one, the layout that follows holds, of n's
\* descendants, exactly n's children, each one collapsed.
C17_ReopenShowsChildrenOnly ==
  ReopenedRendered =>
    LET nodes == state.data.nodes
        t     == NodeWithId(state.data, event.id)
    IN /\ ~nodes[t]._collapsed
       /\ Range(rendered.nodes) \cap Descendants(nodes, t) = Range(nodes[t]._children)
       /\ \A c \in Range(nodes[t]._children) : nodes[c]._collapsed

\* A of the scenario tree (mounted without initialDepth) has been collapsed
\* and expanded again, and the layout holds A, B and C but not D.
C17_Witness ==
  /\ ReopenedRendered
  /\ props.data.raw = ScenarioTree
  /\ props.initialDepth = NoDepth
  /\ NodeWithId(state.data, event.id) = 1
  /\ rendered.nodes = <<1, 2, 3>>

\* ---------------------------------------------------------------------- C18

\* render() has just returned.
JustRendered == pc \in {"didMount", "didUpdate"}

\* The nodes the layout is to show: the first root and the nodes of its tree
\* below expanded ancestors only.
Visible(data) ==
  {n \in LaidOutTree(data) :
     \A a \in AncestorsOf(data.nodes, n) : ~data.nodes[a]._collapsed}

\* C18: the node list of a layout holds, once each, the first root and every
\* node of its tree whose proper ancestors are all expanded, each with depth
\* equal to its distance from the root, and the link list holds exactly one
\* link, from its parent, for every listed node but the root.
C18_LayoutIsVisibleTree ==
  JustRendered =>
    LET nodes == state.data.nodes
    IN /\ Range(rendered.nodes) = Visible(state.data)
       /\ Len(rendered.nodes) = Cardinality(Visible(state.data))
       /\ \A n \in Range(rendered.nodes) : nodes[n].depth = PathLength(nodes, n)
       /\ Range(rendered.links) =
            {[source |-> ParentOf(nodes, n), target |-> n] :
               n \in Range(rendered.nodes) \ {state.data.roots[1]}}
       /\ Len(rendered.links) = Len(rendered.nodes) - 1

\* The expanded root A of the scenario tree has been toggled, and the layout
\* holds A alone and no link.
C18_Witness ==
  /\ pc = "didUpdate"
  /\ event.type = "toggle"
  /\ props.data.raw = ScenarioTree
  /\ NodeWithId(state.data, event.id) = state.data.roots[1]
  /\ state.data.nodes[state.data.roots[1]]._collapsed
  /\ rendered = [nodes |-> <<state.data.roots[1]>>, links |-> <<>>]

\* ---------------------------------------------------------------------- C19

\* The nodes of the data in pre-order: assignInternalProperties numbers the
\* node objects in the order it walks them, parents first, siblings left to
\* right.
PreOrder(data) == [i \in 1..Len(data.nodes) |-> i]

\* The nodes whose path from their root has length d, in pre-order.
AtPathLength(data, d) ==
  SelectSeq(PreOrder(data), LAMBDA n : PathLength(data.nodes, n) = d)

\* C19: in every state the component rests in after a layout, for every d
\* from 0 to the greatest depth, findNodesAtDepth(d, roots, []) is the
\* sequence of the nodes at path length d, hidden ones included, in pre-order.
C19_Original ==
  pc = "idle" =>
    \A d \in 0..MaxNodes :
      findNodesAtDepth(state.data.nodes, d, state.data.roots, <<>>)
        = AtPathLength(state.data, d)

\* ---------------------------------------------------------------------- C20

\* The ids of the current nodes are unique (C5).
UniqueIds(data) ==
  \A m, n \in DOMAIN data.nodes : data.nodes[m].id = data.nodes[n].id => m = n

\* Ids to search for: those of the nodes, 0 and the next id of the stream,
\* two ids no node has.
SearchedIds == CurrentIds \cup {0, uuid}

\* C20: with unique ids, findNodesById(id, roots, []) is the one-element
\* sequence of the node with that id when a node of the data has it, in
\* whatever root and under whatever collapsed ancestors, and empty when none
\* has.
C20_FindsTheNode ==
  UniqueIds(state.data) =>
    \A id \in SearchedIds :
      findNodesById(state.data.nodes, id, state.data.roots, <<>>)
        = IF id \in CurrentIds THEN <<NodeWithId(state.data, id)>> ELSE <<>>

\* After a layout, a node below a collapsed node of a root other than the
\* first is found by its id.
C20_Witness ==
  /\ pc = "idle"
  /\ \E n \in DOMAIN state.data.nodes :
       /\ RootOf(state.data.nodes, n) # state.data.roots[1]
       /\ \E a \in AncestorsOf(state.data.nodes, n) : state.data.nodes[a]._collapsed
       /\ findNodesById(state.data.nodes, state.data.nodes[n].id, state.data.roots, <<>>)
            = <<n>>

\* ---------------------------------------------------------------------- C21

\* A step of a toggle or of a lock release: the handler's setState, or the
\* render or componentDidUpdate of the commit it started.  The props are
\* those of the last render throughout.
CommitStep == event'.type \in {"toggle", "timer"}

\* C21: a toggle commit or a lock release, the zoom, translate and
\* scaleExtent props being what they were, leaves the geometry state as it
\* is, so that a scale and translate set by an earlier pan / zoom event are
\* still the geometry state, and what onUpdate reports, after the commit.
C21_Original ==
  [][CommitStep
       => /\ state'.d3 = state.d3
          /\ \A k \in DOMAIN onUpdateCalls' :
               /\ onUpdateCalls'[k].zoom = state.d3.scale
               /\ onUpdateCalls'[k].translate = state.d3.translate]_vars

====
